---------------------------- MODULE Spec2Model ----------------------------
(***************************************************************************)
(* HealthBuddy (src/HealthBuddy.py): the knowledge base built at startup   *)
(* from defaults and an override file, the age/duration hint extractor    *)
(* and the four-gate triage function.                                      *)
(*                                                                         *)
(* Python strings are modelled as sequences of characters (one-character   *)
(* TLA+ strings), so that lower(), strip(), replace(), split(), substring  *)
(* containment, str.isdigit(), int() and the regular expression of triage  *)
(* are computed as the interpreter computes them.  Optional values are     *)
(* sequences of length at most one: None is <<>> and the value v is <<v>>. *)
(***************************************************************************)
EXTENDS Integers, Sequences, FiniteSets, TLC

VARIABLES
    kb_file,            \* content of healthbuddy_kb.json as found at startup
    kb_overrides,       \* what load_kb() returned (line 99)
    KB,                 \* the knowledge base (lines 49-100)
    pc,                 \* "start", "ready", "failed" (startup raised), "done"
    text,               \* the phrases typed so far into the symptoms field
    age_override,       \* arguments of the last triage call
    duration_override,
    severity,
    hints,              \* what parse_age_and_duration returned inside that call
    result              \* outcome of that call: a Decision with its reason, or an exception

vars == <<kb_file, kb_overrides, KB, pc, text, age_override, duration_override,
          severity, hints, result>>

-----------------------------------------------------------------------------
(* Bounds of the model *)

\* most phrases typed into the symptoms field before the form is submitted
MaxPhrases == 2

\* most entries of an override file that is a JSON object
MaxOverrides == 2

-----------------------------------------------------------------------------
(* Optional values and exceptions *)

None == <<>>

Some(v) == <<v>>

Raised(exc) == [status |-> "raised", exc |-> exc]

-----------------------------------------------------------------------------
(* Characters and strings *)

\* U+00B2 SUPERSCRIPT TWO: str.isdigit() accepts it, int() does not
SUP2 == "U+00B2"

\* the characters of every string literal of the source that the model uses, and of
\* the phrases a user types
CharsOf ==
    ("chest pain" :> <<"c","h","e","s","t"," ","p","a","i","n">>)
    @@ ("difficulty breathing" :> <<"d","i","f","f","i","c","u","l","t","y"," ","b","r","e","a","t","h","i","n","g">>)
    @@ ("severe bleeding" :> <<"s","e","v","e","r","e"," ","b","l","e","e","d","i","n","g">>)
    @@ ("unconscious" :> <<"u","n","c","o","n","s","c","i","o","u","s">>)
    @@ ("confusion" :> <<"c","o","n","f","u","s","i","o","n">>)
    @@ ("blue lips" :> <<"b","l","u","e"," ","l","i","p","s">>)
    @@ ("weakness" :> <<"w","e","a","k","n","e","s","s">>)
    @@ ("dizzy" :> <<"d","i","z","z","y">>)
    @@ ("child fever" :> <<"c","h","i","l","d"," ","f","e","v","e","r">>)
    @@ ("sore throat" :> <<"s","o","r","e"," ","t","h","r","o","a","t">>)
    @@ ("stomach pain" :> <<"s","t","o","m","a","c","h"," ","p","a","i","n">>)
    @@ ("headache" :> <<"h","e","a","d","a","c","h","e">>)
    @@ ("cough" :> <<"c","o","u","g","h">>)
    @@ ("fever" :> <<"f","e","v","e","r">>)
    @@ ("day" :> <<"d","a","y">>)
    @@ ("days" :> <<"d","a","y","s">>)
    @@ ("3" :> <<"3">>)
    @@ ("three" :> <<"t","h","r","e","e">>)
    @@ ("year" :> <<"y","e","a","r">>)
    @@ ("years" :> <<"y","e","a","r","s">>)
    @@ ("yr" :> <<"y","r">>)
    @@ ("y/o" :> <<"y","/","o">>)
    @@ ("Fever" :> <<"F","e","v","e","r">>)
    @@ ("Fever for 3 days and sore throat" :> <<"F","e","v","e","r"," ","f","o","r"," ","3"," ","d","a","y","s"," ","a","n","d"," ","s","o","r","e"," ","t","h","r","o","a","t">>)
    @@ ("3 days" :> <<"3"," ","d","a","y","s">>)
    @@ ("three days" :> <<"t","h","r","e","e"," ","d","a","y","s">>)
    @@ ("5 days" :> <<"5"," ","d","a","y","s">>)
    @@ ("4 years" :> <<"4"," ","y","e","a","r","s">>)
    @@ ("4 y/o" :> <<"4"," ","y","/","o">>)
    @@ ("30 yr" :> <<"3","0"," ","y","r">>)
    @@ ("feeling off" :> <<"f","e","e","l","i","n","g"," ","o","f","f">>)
    @@ ("<U+00B2>" :> <<SUP2>>)

UPPER == <<"A","B","C","D","E","F","G","H","I","J","K","L","M",
           "N","O","P","Q","R","S","T","U","V","W","X","Y","Z">>

LOWER == <<"a","b","c","d","e","f","g","h","i","j","k","l","m",
           "n","o","p","q","r","s","t","u","v","w","x","y","z">>

ASCII_DIGITS == <<"0","1","2","3","4","5","6","7","8","9">>

Range(s) == {s[i] : i \in DOMAIN s}

UpperSet == Range(UPPER)

LowerSet == Range(LOWER)

DigitSet == Range(ASCII_DIGITS)

\* str.lower() on one character
LowerChar(c) ==
    IF c \in UpperSet THEN LOWER[CHOOSE i \in DOMAIN UPPER : UPPER[i] = c] ELSE c

\* str.lower()
Lower(s) == [i \in DOMAIN s |-> LowerChar(s[i])]

IsSpace(c) == c = " "

\* str.strip()
RECURSIVE LStrip(_)
LStrip(s) == IF s # <<>> /\ IsSpace(s[1]) THEN LStrip(Tail(s)) ELSE s

RECURSIVE RStrip(_)
RStrip(s) ==
    IF s # <<>> /\ IsSpace(s[Len(s)]) THEN RStrip(SubSeq(s, 1, Len(s) - 1)) ELSE s

Strip(s) == RStrip(LStrip(s))

\* str.replace(old, new) for one-character old and new
Replace(s, old, new) == [i \in DOMAIN s |-> IF s[i] = old THEN new ELSE s[i]]

\* str.split(): the maximal runs of non-whitespace characters of s from position i on,
\* cur being the run under construction
RECURSIVE SplitFrom(_, _, _)
SplitFrom(s, i, cur) ==
    IF i > Len(s) THEN (IF cur = <<>> THEN <<>> ELSE <<cur>>)
    ELSE IF IsSpace(s[i])
         THEN (IF cur = <<>> THEN <<>> ELSE <<cur>>) \o SplitFrom(s, i + 1, <<>>)
         ELSE SplitFrom(s, i + 1, Append(cur, s[i]))

Split(s) == SplitFrom(s, 1, <<>>)

\* " ".join(tokens)
RECURSIVE Join(_)
Join(tokens) ==
    IF tokens = <<>> THEN <<>>
    ELSE IF Len(tokens) = 1 THEN tokens[1]
    ELSE tokens[1] \o <<" ">> \o Join(Tail(tokens))

\* k occurs in s at position i
MatchAt(s, k, i) ==
    /\ i >= 1
    /\ i + Len(k) - 1 <= Len(s)
    /\ \A j \in 1..Len(k) : s[i + j - 1] = k[j]

\* the Python expression `k in s` for strings
Contains(s, k) ==
    k = <<>> \/ \E i \in 1..(Len(s) - Len(k) + 1) : s[i] = k[1] /\ MatchAt(s, k, i)

\* str.startswith
StartsWith(s, k) == MatchAt(s, k, 1)

\* str.isdigit() on one character: the ASCII digits and the other characters of
\* Unicode property Numeric_Type=Digit or Decimal, of which the model has U+00B2
IsDigitChar(c) == c \in DigitSet \/ c = SUP2

\* str.isdigit()
IsDigit(tok) == tok # <<>> /\ \A i \in DOMAIN tok : IsDigitChar(tok[i])

\* int(tok) succeeds on a token that isdigit() accepted: every character is a decimal digit
IntParses(tok) == \A i \in DOMAIN tok : tok[i] \in DigitSet

DigitValue(c) == (CHOOSE i \in DOMAIN ASCII_DIGITS : ASCII_DIGITS[i] = c) - 1

\* int(tok) for a token of decimal digits
RECURSIVE ParseInt(_)
ParseInt(tok) ==
    IF tok = <<>> THEN 0
    ELSE 10 * ParseInt(SubSeq(tok, 1, Len(tok) - 1)) + DigitValue(tok[Len(tok)])

\* \w of the re module on str patterns: alphanumeric characters and the underscore
IsWordChar(c) ==
    c \in LowerSet \/ c \in UpperSet \/ c \in DigitSet \/ c = "_" \/ c = SUP2

\* re.search(r"\bw\b", s) for a word w of word characters
SearchWord(s, w) ==
    \E i \in 1..(Len(s) - Len(w) + 1) :
        /\ s[i] = w[1]
        /\ MatchAt(s, w, i)
        /\ (i = 1 \/ ~IsWordChar(s[i - 1]))
        /\ (i + Len(w) - 1 = Len(s) \/ ~IsWordChar(s[i + Len(w)]))

-----------------------------------------------------------------------------
(* Hint extractor *)

AGE_MARKERS == <<"year", "years", "yr", "y/o">>

Max(a, b) == IF a >= b THEN a ELSE b

Min(a, b) == IF a <= b THEN a ELSE b

\* tokens[max(0, i-1): i+2] joined by spaces, for the 1-based index i
Window(tokens, i) == Join(SubSeq(tokens, Max(1, i - 1), Min(Len(tokens), i + 1)))

\* 0 < n < 120 and a marker is a substring of the window
IsAgeCandidate(tokens, i, n) ==
    /\ 0 < n
    /\ n < 120
    /\ \E m \in DOMAIN AGE_MARKERS : Contains(Window(tokens, i), CharsOf[AGE_MARKERS[m]])

\* the token after tokens[i] starts with "day"
IsDurationCandidate(tokens, i) ==
    i + 1 <= Len(tokens) /\ StartsWith(tokens[i + 1], CharsOf["day"])

\* the loop of parse_age_and_duration from token i on, with the age and duration so far
RECURSIVE ScanTokens(_, _, _, _)
ScanTokens(tokens, i, age, duration_days) ==
    IF i > Len(tokens)
    THEN [status |-> "returned", age |-> age, duration |-> duration_days]
    ELSE IF ~IsDigit(tokens[i])
    THEN ScanTokens(tokens, i + 1, age, duration_days)
    ELSE IF ~IntParses(tokens[i])
    THEN Raised("ValueError")
    ELSE LET n == ParseInt(tokens[i])
         IN  ScanTokens(tokens, i + 1,
                        IF IsAgeCandidate(tokens, i, n) THEN Some(n) ELSE age,
                        IF IsDurationCandidate(tokens, i) THEN Some(n) ELSE duration_days)

Tokenize(t) == Split(Replace(Lower(t), "/", " "))

parse_age_and_duration(t) == ScanTokens(Tokenize(t), 1, None, None)

-----------------------------------------------------------------------------
(* JSON values: what json.load returns, and what the knowledge base holds *)

JStr(s) == [t |-> "str", s |-> s, l |-> <<>>, n |-> 0, m |-> <<>>]

JList(l) == [t |-> "list", s |-> "", l |-> l, n |-> 0, m |-> <<>>]

JNum(n) == [t |-> "num", s |-> "", l |-> <<>>, n |-> n, m |-> <<>>]

JNull == [t |-> "null", s |-> "", l |-> <<>>, n |-> 0, m |-> <<>>]

\* a JSON object: m maps its keys to JSON values
JObj(m) == [t |-> "obj", s |-> "", l |-> <<>>, n |-> 0, m |-> m]

\* Python truth value of a loaded JSON value
Truthy(v) ==
    CASE v.t = "str"  -> v.s # ""
      [] v.t = "list" -> v.l # <<>>
      [] v.t = "num"  -> v.n # 0
      [] v.t = "null" -> FALSE
      [] v.t = "obj"  -> DOMAIN v.m # {}

-----------------------------------------------------------------------------
(* Knowledge base *)

DefaultKB ==
    [emergency_msg |-> JStr("This may be an emergency. Call 108 immediately. Do not delay."),
     fever_3d_msg |-> JStr("Fever for >=3 days may need evaluation. Consult telemedicine/clinic within 24h."),
     fallback_msg |-> JStr("Symptoms unclear. For safety, consider contacting a clinician or visiting a clinic."),
     selfcare_headache |-> JList(<<"Rest in a quiet, dark room.",
                                   "Hydrate with water or oral rehydration solution.",
                                   "Limit screens; consider paracetamol as per label if needed.",
                                   "Seek care if headache becomes severe or there is confusion or weakness.">>),
     selfcare_cough |-> JList(<<"Sip warm fluids with honey/lemon (if not allergic).",
                                "Try steam inhalation for congestion.",
                                "Avoid smoke/irritants; rest well.",
                                "Seek care if breathing worsens, high fever appears, or cough lasts >2 weeks.">>),
     moderate_general |-> JList(<<"Consult a clinician within 24-48 hours (telemedicine or clinic).",
                                  "Continue fluids and rest; track temperature and symptoms.",
                                  "Prepare a brief symptom timeline (onset, duration, severity) for the visit.">>),
     moderate_fever3 |-> JList(<<"Arrange a telemedicine/clinic visit within 24 hours.",
                                 "Stay hydrated; use temperature control (tepid sponging, light clothing).",
                                 "Record temperatures and new symptoms to share with the clinician.">>),
     urgent_general |-> JList(<<"Visit a clinic today for evaluation.",
                                "Avoid heavy exertion; arrange transport if feeling weak/dizzy.",
                                "Bring a medication list and known conditions.">>),
     urgent_pediatric_fever3 |-> JList(<<"Take the child to a pediatric clinic today.",
                                         "Offer frequent small fluids; check temperature regularly.",
                                         "Watch for red flags (lethargy, poor feeding, breathing difficulty).">>),
     emergency_general |-> JList(<<"Call 108 now or go to the nearest emergency department.",
                                   "Do not drive yourself; have someone accompany you if possible.",
                                   "Bring ID and any current medications.">>)]

\* the override file: absent, not valid JSON, or a JSON document
FileAbsent == [kind |-> "absent", value |-> JNull]

FileInvalid == [kind |-> "invalid", value |-> JNull]

FileJson(v) == [kind |-> "json", value |-> v]

\* load_kb(): {} when the file is absent or json.load raises JSONDecodeError, else
\* whatever json.load returned
load_kb(file) ==
    IF file.kind = "json" THEN file.value ELSE JObj(<<>>)

\* {k: v for k, v in overrides.items() if v}
TruthyItems(m) == {k \in DOMAIN m : Truthy(m[k])}

\* the merge without the `if v` filter: KB.update(overrides)
MergeUnfiltered(defaults, m) ==
    [k \in DOMAIN defaults \cup DOMAIN m |-> IF k \in DOMAIN m THEN m[k] ELSE defaults[k]]

\* KB.update({k: v for k, v in overrides.items() if v})
Merge(defaults, m) ==
    [k \in DOMAIN defaults \cup TruthyItems(m) |->
        IF k \in TruthyItems(m) THEN m[k] ELSE defaults[k]]

\* only a dict has .items(): on any other JSON value line 100 raises AttributeError
HasItems(v) == v.t = "obj"

-----------------------------------------------------------------------------
(* Triage *)

RED_FLAGS == <<"chest pain", "difficulty breathing", "severe bleeding",
               "unconscious", "confusion", "blue lips">>

ordered_rules ==
    << <<"emergency", <<"chest pain", "difficulty breathing", "severe bleeding",
                        "unconscious", "weakness">> >>,
       <<"urgent",    <<"dizzy", "child fever">> >>,
       <<"moderate",  <<"sore throat", "stomach pain">> >>,
       <<"selfcare",  <<"headache", "cough">> >> >>

\* the first entry of keys, in list order, that is a substring of t: None or Some(key)
FirstKeyIn(keys, t) ==
    LET hits == {i \in DOMAIN keys : Contains(t, CharsOf[keys[i]])}
    IN  IF hits = {} THEN None
        ELSE Some(keys[CHOOSE i \in hits : \A j \in hits : i <= j])

\* the first (level, key) of the nested loops over ordered_rules: None or Some(<<level, key>>)
FirstRuleIn(rules, t) ==
    LET hits == {r \in DOMAIN rules : FirstKeyIn(rules[r][2], t) # None}
    IN  IF hits = {} THEN None
        ELSE LET r == CHOOSE i \in hits : \A j \in hits : i <= j
             IN  Some(<<rules[r][1], FirstKeyIn(rules[r][2], t)[1]>>)

\* the value of an optional integer is present and satisfies the comparison
IsPositive(opt) == opt # None /\ opt[1] > 0

\* an override replaces the text-derived value when it is not None and > 0
Resolve(override, derived) == IF IsPositive(override) THEN override ELSE derived

three_days_digit(t) ==
    /\ SearchWord(t, CharsOf["3"]) \/ SearchWord(t, CharsOf["three"])
    /\ Contains(t, CharsOf["day"]) \/ Contains(t, CharsOf["days"])

long_duration(duration) == duration # None /\ duration[1] >= 3

\* the condition of the fever gate
FeverGate(t, duration) ==
    Contains(t, CharsOf["fever"]) /\ (three_days_digit(t) \/ long_duration(duration))

\* a Decision whose tier is escalated by a self-reported severity of "Severe"
DecisionEscalatedBySeverity(tier, headline, routes, age, duration, sev, points, reason) ==
    [status |-> "returned",
     tier |-> IF sev = Some("Severe") /\ tier # "Emergency" THEN "Urgent" ELSE tier,
     headline |-> headline, routes |-> routes,
     age |-> age, duration |-> duration, severity |-> sev, points |-> points,
     reason |-> reason]

\* the returned pair (result tuple, reason) as one record
Decision(tier, headline, routes, age, duration, sev, points, reason) ==
    [status |-> "returned", tier |-> tier, headline |-> headline, routes |-> routes,
     age |-> age, duration |-> duration, severity |-> sev, points |-> points,
     reason |-> reason]

\* the return statement of the keyword gate for the matched (level, key)
KeywordDecision(kb, level, key, age, duration, sev) ==
    CASE level = "emergency" ->
            Decision("Emergency", kb["emergency_msg"], <<"Call 108", "Find nearest ER">>,
                     age, duration, sev, kb["emergency_general"],
                     "rule:" \o level \o ":" \o key)
      [] level = "urgent" ->
            Decision("Urgent", JStr("See a doctor today for further evaluation."),
                     <<"Find nearby clinic", "Call clinic">>,
                     age, duration, sev, kb["urgent_general"],
                     "rule:" \o level \o ":" \o key)
      [] level = "moderate" ->
            Decision("Moderate", JStr("Consider a clinic/telemedicine visit within 24-48h."),
                     <<"Open telemedicine", "Find nearby clinic">>,
                     age, duration, sev, kb["moderate_general"],
                     "rule:" \o level \o ":" \o key)
      [] OTHER ->
            Decision("Self-care", JStr("Safe to try self-care now."), <<"Self-care tips">>,
                     age, duration, sev,
                     IF key = "headache" THEN kb["selfcare_headache"] ELSE kb["selfcare_cough"],
                     "rule:" \o level \o ":" \o key)

\* the gates of triage on the lower-cased, stripped text t with the resolved hints
Gates(kb, t, age, duration, sev) ==
    LET rf == FirstKeyIn(RED_FLAGS, t)
        rule == FirstRuleIn(ordered_rules, t)
    IN  IF rf # None
        THEN Decision("Emergency", kb["emergency_msg"], <<"Call 108", "Find nearest ER">>,
                      age, duration, sev, kb["emergency_general"], "red_flag:" \o rf[1])
        ELSE IF FeverGate(t, duration)
        THEN IF age # None /\ age[1] < 5
             THEN Decision("Urgent", JStr("Child with fever >=3 days should be seen today."),
                           <<"Find nearby clinic", "Call clinic">>,
                           age, duration, sev, kb["urgent_pediatric_fever3"],
                           "rule:fever_3_days_pediatric")
             ELSE Decision("Moderate", kb["fever_3d_msg"],
                           <<"Open telemedicine", "Find nearby clinic">>,
                           age, duration, sev, kb["moderate_fever3"], "rule:fever_3_days")
        ELSE IF rule # None
        THEN KeywordDecision(kb, rule[1][1], rule[1][2], age, duration, sev)
        ELSE Decision("Unknown", kb["fallback_msg"],
                      <<"Open telemedicine", "Find nearby clinic">>,
                      age, duration, sev, JList(<<>>), "fallback")

\* t = (text or "").lower().strip()
Normalize(s) == Strip(Lower(s))

\* triage after line 138, h being what parse_age_and_duration(t) returned or raised:
\* an exception of parse_age_and_duration propagates
TriageFrom(kb, t, h, age_ov, duration_ov, sev) ==
    IF h.status = "raised" THEN h
    ELSE Gates(kb, t, Resolve(age_ov, h.age), Resolve(duration_ov, h.duration), sev)

\* triage(text, age_override, duration_override, severity) against the knowledge base kb
triage(kb, s, age_ov, duration_ov, sev) ==
    TriageFrom(kb, Normalize(s), parse_age_and_duration(Normalize(s)),
               age_ov, duration_ov, sev)

-----------------------------------------------------------------------------
(* Inputs *)

\* what a user types, phrase by phrase; the phrases are joined by single spaces
Phrases ==
    {"chest pain", "confusion", "weakness", "Fever", "Fever for 3 days and sore throat",
     "3 days", "three days", "5 days", "4 years", "4 y/o", "30 yr", "cough", "headache",
     "dizzy", "feeling off", "<U+00B2>"}

\* the characters of the typed text
TextOf(phrases) == Join([i \in DOMAIN phrases |-> CharsOf[phrases[i]]])

AgeOverrides == {None, Some(0), Some(3), Some(28)}

DurationOverrides == {Some(0), Some(1), Some(4)}

Severities == {None, Some("Severe")}

\* keys of the knowledge base, and one key the program never reads
OverrideKeys == DOMAIN DefaultKB \cup {"extra_note"}

OverrideValues ==
    {JStr(""), JList(<<>>), JNull, JNum(0), JStr("custom text"), JList(<<"custom tip">>)}

\* the JSON objects with at most MaxOverrides entries
OverrideObjects ==
    UNION {[D -> OverrideValues] : D \in {S \in SUBSET OverrideKeys : Cardinality(S) <= MaxOverrides}}

NonMappings == {JNull, JNum(7), JStr("custom text"), JList(<<>>), JList(<<"custom tip">>)}

\* override files of the startup specification
KbFiles ==
    {FileAbsent, FileInvalid} \cup {FileJson(v) : v \in NonMappings}
        \cup {FileJson(JObj(m)) : m \in OverrideObjects}

\* override files of the triage specification
TriageKbFiles ==
    {FileAbsent,
     FileJson(JList(<<"custom tip">>)),
     FileJson(JObj([emergency_msg |-> JStr("custom text"), fallback_msg |-> JStr("")]))}

-----------------------------------------------------------------------------
(* The program *)

NoResult == [status |-> "none"]

InitRest ==
    /\ kb_overrides = JNull
    /\ KB = DefaultKB
    /\ pc = "start"
    /\ text = <<>>
    /\ age_override = None
    /\ duration_override = None
    /\ severity = None
    /\ hints = NoResult
    /\ result = NoResult

Init == kb_file \in TriageKbFiles /\ InitRest

InitKB == kb_file \in KbFiles /\ InitRest

\* lines 99-100: load the overrides and merge them into KB
Startup ==
    /\ pc = "start"
    /\ kb_overrides' = load_kb(kb_file)
    /\ IF HasItems(kb_overrides')
       THEN KB' = Merge(KB, kb_overrides'.m) /\ pc' = "ready"
       ELSE KB' = KB /\ pc' = "failed"
    /\ UNCHANGED <<kb_file, text, age_override, duration_override, severity, hints, result>>

\* the user adds a phrase to the symptoms field
TypePhrase ==
    /\ pc = "ready"
    /\ Len(text) < MaxPhrases
    /\ \E p \in Phrases : text' = Append(text, p)
    /\ UNCHANGED <<kb_file, kb_overrides, KB, pc, age_override, duration_override,
                   severity, hints, result>>

\* lines 293-299: the form is submitted and triage runs on its fields
Submit ==
    /\ pc = "ready"
    /\ LET t == Normalize(TextOf(text))
           h == parse_age_and_duration(t)
       IN  /\ hints' = h
           /\ \E a \in AgeOverrides, d \in DurationOverrides, s \in Severities :
                /\ age_override' = a
                /\ duration_override' = d
                /\ severity' = s
                /\ result' = TriageFrom(KB, t, h, a, d, s)
    /\ pc' = "done"
    /\ UNCHANGED <<kb_file, kb_overrides, KB, text>>

Next == Startup \/ TypePhrase \/ Submit

Spec == Init /\ [][Next]_vars

NextKB == Startup

SpecKB == InitKB /\ [][NextKB]_vars

-----------------------------------------------------------------------------
(* Properties *)

\* the text as triage matches it
NormText == Normalize(TextOf(text))

\* the text contains the keyword
Has(key) == Contains(NormText, CharsOf[key])

HasRedFlag == \E i \in DOMAIN RED_FLAGS : Has(RED_FLAGS[i])

\* the first red flag, in list order, that the text contains
FirstRedFlag ==
    RED_FLAGS[CHOOSE i \in DOMAIN RED_FLAGS :
                 Has(RED_FLAGS[i]) /\ \A j \in 1..(i - 1) : ~Has(RED_FLAGS[j])]

\* the text contains a keyword of tier r of the ordered rule table
HasTierKeyword(r) == \E i \in DOMAIN ordered_rules[r][2] : Has(ordered_rules[r][2][i])

HasAnyKeyword == \E r \in DOMAIN ordered_rules : HasTierKeyword(r)

\* age and duration derived from the text, absent when the extractor raised
TextAge == IF hints.status = "returned" THEN hints.age ELSE None

TextDuration == IF hints.status = "returned" THEN hints.duration ELSE None

ResolvedAge == Resolve(age_override, TextAge)

ResolvedDuration == Resolve(duration_override, TextDuration)

Returned == result.status = "returned"

FeverGateFired ==
    Returned /\ result.reason \in {"rule:fever_3_days", "rule:fever_3_days_pediatric"}

\* the condition of the fever gate as the specification words it
FeverCondition ==
    /\ Has("fever")
    /\ \/ (SearchWord(NormText, CharsOf["3"]) \/ SearchWord(NormText, CharsOf["three"]))
              /\ Has("day")
       \/ (ResolvedDuration # None /\ ResolvedDuration[1] >= 3)

\* what the red-flag gate returns
RedFlagOutcome ==
    /\ Returned
    /\ result.tier = "Emergency"
    /\ result.routes = <<"Call 108", "Find nearest ER">>
    /\ result.reason = "red_flag:" \o FirstRedFlag

\* C1: every text that contains a red flag is answered with tier Emergency, routes
\* Call 108 / Find nearest ER and reason red_flag:<first red flag in list order>,
\* whatever the overrides, the severity and the other keywords of the text.
C1_RedFlagAlwaysEmergency == (pc = "done" /\ HasRedFlag) => RedFlagOutcome

\* The part of C1 that holds: on every call that returns, the red flag wins over the
\* fever gate and every keyword.
C1_RedFlagWinsWhenReturned == (pc = "done" /\ HasRedFlag /\ Returned) => RedFlagOutcome

\* C2: a text with an emergency-tier keyword of the ordered rule table and a keyword of
\* a lower tier is resolved to the Emergency outcome (stated here for the calls that
\* return a Decision).
C2_EmergencyKeywordBeatsLowerTiers ==
    (pc = "done" /\ Returned /\ HasTierKeyword(1)
        /\ (HasTierKeyword(2) \/ HasTierKeyword(3) \/ HasTierKeyword(4)))
    => result.tier = "Emergency"

\* C3: with a duration override d2 > 0 the Decision carries d2 and the fever gate fires
\* exactly as for an input whose only duration signal is d2, that is, when the text has
\* "fever" and d2 >= 3 (stated here for the calls that return a Decision and match no
\* red flag).
C3_DurationOverrideReplacesText ==
    (pc = "done" /\ Returned /\ ~HasRedFlag /\ IsPositive(duration_override))
    => /\ result.duration = duration_override
       /\ FeverGateFired <=> (Has("fever") /\ duration_override[1] >= 3)

\* the fever gate fired exactly on its condition, with the pediatric branch exactly for
\* a resolved age that is present and < 5
C4_Outcome ==
    /\ FeverGateFired <=> FeverCondition
    /\ FeverGateFired =>
        IF ResolvedAge # None /\ ResolvedAge[1] < 5
        THEN result.tier = "Urgent" /\ result.reason = "rule:fever_3_days_pediatric"
        ELSE result.tier = "Moderate" /\ result.reason = "rule:fever_3_days"

\* C4: without a red flag the fever gate fires exactly when the text has "fever" and
\* either a standalone 3/three with "day" somewhere or a resolved duration >= 3; it then
\* answers Urgent (pediatric) exactly when the resolved age is present and < 5, and
\* Moderate otherwise, whatever keyword the text also contains.
C4_FeverGateExactly == (pc = "done" /\ ~HasRedFlag) => C4_Outcome

\* The part of C4 that holds: the same on every call that returns.
C4_FeverGateWhenReturned == (pc = "done" /\ ~HasRedFlag /\ Returned) => C4_Outcome

\* C5: the severity argument is carried into the Decision unchanged and influences
\* nothing else: the same call with any other severity has the same outcome up to the
\* severity field.
C5_SeverityOnlyCarried ==
    pc = "done" =>
        /\ Returned => result.severity = severity
        /\ \A s2 \in Severities \ {severity} :
            triage(KB, TextOf(text), age_override, duration_override, s2)
                = IF Returned THEN [result EXCEPT !.severity = s2] ELSE result

\* C5 witness: a call with severity "Severe" that is answered with self-care.
C5_Witness ==
    pc = "done" /\ severity = Some("Severe") /\ Returned /\ result.tier = "Self-care"

\* the fallback Decision
FallbackOutcome ==
    /\ Returned
    /\ result.tier = "Unknown"
    /\ result.headline = KB["fallback_msg"]
    /\ result.routes = <<"Open telemedicine", "Find nearby clinic">>
    /\ result.points = JList(<<>>)
    /\ result.reason = "fallback"

NothingMatches == ~HasRedFlag /\ ~FeverCondition /\ ~HasAnyKeyword

\* the fallback exactly when nothing matches, and a matched rule otherwise
C6_Outcome ==
    IF NothingMatches
    THEN FallbackOutcome
    ELSE /\ Returned
         /\ result.tier # "Unknown"
         /\ Truthy(result.points)
         /\ result.reason # "fallback"

\* C6: triage answers with the fallback Decision exactly when no red flag matched, the
\* fever gate did not fire and no keyword of the four tiers is in the text; every other
\* input gets a tier other than Unknown, a non-empty advice list and a reason other
\* than "fallback".
C6_FallbackExactly == pc = "done" => C6_Outcome

\* The part of C6 that holds: the same on every call that returns.
C6_FallbackWhenReturned == (pc = "done" /\ Returned) => C6_Outcome

\* C7: startup never fails because of the override file: a file that is absent, not
\* valid JSON or JSON of another shape than a mapping counts as an empty mapping and
\* leaves KB equal to the defaults.
C7_StartupNeverFails ==
    pc # "start" =>
        /\ pc = "ready"
        /\ (kb_file.kind # "json" \/ kb_file.value.t # "obj")
            => (kb_overrides = JObj(<<>>) /\ KB = DefaultKB)

\* C8: neither the hint extractor nor triage raises, whatever the text and the
\* overrides.
C8_NeverRaises == pc = "done" => (hints.status = "returned" /\ Returned)

\* the keys of KB that triage reads
TriageKeys ==
    {"emergency_msg", "fever_3d_msg", "fallback_msg", "emergency_general",
     "urgent_general", "urgent_pediatric_fever3", "moderate_general", "moderate_fever3",
     "selfcare_headache", "selfcare_cough"}

\* C9: after the merge every key triage reads is present with a non-empty value; an
\* override entry replaced the default exactly when its value is truthy, and an entry
\* with an empty value left the default in place.
C9_KeysNonEmptyAfterMerge ==
    pc = "ready" =>
        \A k \in TriageKeys :
            /\ k \in DOMAIN KB
            /\ Truthy(KB[k])
            /\ KB[k] = IF k \in DOMAIN kb_overrides.m /\ Truthy(kb_overrides.m[k])
                       THEN kb_overrides.m[k]
                       ELSE DefaultKB[k]

\* C9 witness: a merge of a mapping with a blank entry and a non-blank entry for keys
\* that triage reads.
C9_Witness ==
    /\ pc = "ready"
    /\ \E k1, k2 \in TriageKeys \cap DOMAIN kb_overrides.m :
        /\ ~Truthy(kb_overrides.m[k1])
        /\ KB[k1] = DefaultKB[k1]
        /\ Truthy(kb_overrides.m[k2])
        /\ KB[k2] # DefaultKB[k2]

\* the age the extractor would return if the marker "y/o" could be seen in a window:
\* the same scan over the whitespace-separated tokens of the text
AgeWithMarkersVisible == ScanTokens(Split(NormText), 1, None, None).age

\* C10: a numeric token n with 0 < n < 120 is the age whenever its 3-token window
\* contains "year", "years", "yr" or "y/o" ("4 y/o" yields 4 as "4 years" does), the
\* last such token wins, and there is no age otherwise (stated here for the calls on
\* which the extractor returns).
C10_AgeFromMarkers ==
    (pc = "done" /\ hints.status = "returned") => hints.age = AgeWithMarkersVisible

=============================================================================
